---- MODULE Spec2Model ----
(***************************************************************************)
(* spotify-archiver (src/index.js, the settings-driven program that starts *)
(* at line 237): the archival job, playlist identity resolution, the       *)
(* reconciliation playlistArchiveContents, and the credential lifecycle.   *)
(*                                                                         *)
(* The program is single-threaded JavaScript.  Every `await` of a remote   *)
(* call is a suspension point, so each remote call is one action (the      *)
(* moment the remote side serves it) and the synchronous code that runs    *)
(* when the awaited promise settles is the next action.  Reconciliations   *)
(* are started without `await` (line 489), so they outlive the loop that   *)
(* started them and interleave with each other.                            *)
(*                                                                         *)
(* A rejected playlistArchiveContents promise is handled by nobody.  The   *)
(* runtime then either logs a warning or ends the process; a process that  *)
(* ended takes no further step, which is a prefix of the behaviours below, *)
(* and the fairness conditions (FairCred) ask nothing of it.               *)
(*                                                                         *)
(* The /callback handler (lines 395-432) receives requests in SpecAuth and *)
(* SpecStore; in the other specifications the operator does not log in.    *)
(***************************************************************************)
EXTENDS Naturals, Sequences, FiniteSets, Bags, TLC

\* ------------------------------------------------------------------ bounds
MaxTrack == 2      \* TrackURIs are 1..MaxTrack
MaxRuns  == 2      \* archival runs that may be in flight at the same time
MaxId    == 4      \* remote playlist IDs are 1..MaxId
MaxToken == 1      \* distinct token strings the remote side hands out
MaxCallbacks == 2  \* /callback requests that may be in service together
MaxWrites == 1     \* fs.writeFile calls that may still be in flight when
                   \*   a step hands further documents to fs.writeFile
MaxRefresh == 2    \* timer callbacks in flight beyond which the timer does not fire

Tracks   == 1..MaxTrack
Runs     == 1..MaxRuns
Ids      == 1..MaxId
Tokens   == 1..MaxToken

\* `undefined` (a missing id, a missing token): falsy in the `||` chains
Undefined == 0

\* expires_in values (seconds) the remote side reports
Lifetimes == {3600}

\* ------------------------------------------------------- array helpers (JS)
Range(s) == {s[k] : k \in DOMAIN s}

includes(s, x) == \E k \in DOMAIN s : s[k] = x

\* Array.prototype.filter with the predicate given as the set of kept values
filterSeq(s, keep) ==
    LET kept(element) == element \in keep
    IN  SelectSeq(s, kept)

\* function diff(a, b) { return a.filter(element => !b.includes(element)); }
diff(a, b) == filterSeq(a, Range(a) \ Range(b))

RECURSIVE uniq(_, _)
\* [...new Set(s)]: first occurrences, in insertion order
uniq(s, seen) ==
    IF s = <<>> THEN <<>>
    ELSE IF Head(s) \in seen THEN uniq(Tail(s), seen)
         ELSE <<Head(s)>> \o uniq(Tail(s), seen \cup {Head(s)})

\* mergeUnique that forgets its first operand
mergeUniqueDropsOld(a, b) == uniq(b, {})

\* function mergeUnique(a, b) { return [...new Set([...a, ...b])]; }
mergeUnique(a, b) == uniq(a \o b, {})

\* ---------------------------------------------------------------- settings
\* the settings file: a list of playlist names (strings); lines 330-341
ParseSettings(yamlfile) ==
    [k \in DOMAIN yamlfile |->
        [source |-> [name |-> yamlfile[k]],
         target |-> [name |-> yamlfile[k] \o " (save)"]]]

VARIABLES
    settings,        \* settings.archiver
    remote,          \* the remote service: playlist id -> [name, tracks]
    globalBlacklist, \* contents of the designated global-blacklist playlist
    server,          \* the remote service: the tokens it accepts, and the
                     \*   lifetimes (expires_in) it reports
    spotify,         \* the API client: [accessToken, refreshToken]
    persist,         \* the watched persistence: [tokens, playlists]
    refreshTimer,    \* [interval]: the interval the timer is armed with;
                     \*   [pending]: how many of its callbacks wait for
                     \*   the answer of refreshAccessToken (line 360)
    startup,         \* the start-up checkAuth: "checkAuth" | "done"
    callback,        \* the /callback requests in service: how many wait
                     \*   for the code exchange ([grant]) and how many
                     \*   for the probe after it ([checkAuth])
    job,             \* one record per run in flight
    rec,             \* the playlistArchiveContents activations of each run
    removedByUser,   \* history: the tracks the user removed, per playlist
    disturbed,       \* history: the remote lists were edited from outside
                     \*          since the latest run began
    settled,         \* history: the targets a reconcile has completed on
                     \*          with no outside edit since that run began
    file,            \* the document in the persistence file
    writes,          \* the fs.writeFile calls in flight (a bag): of each,
                     \*   its document and the documents it raced with
    failed,          \* history: a write of the file has failed
    rejected         \* history: a refresh was rejected in the timer's
                     \*          callback, where nobody handles it

prog == <<settings, remote, globalBlacklist, server, spotify, persist,
          refreshTimer, startup, callback, job, rec>>
seen == <<removedByUser, disturbed, settled>>
store == <<file, writes, failed>>
hist == <<seen, store, rejected>>
vars == <<prog, hist>>

Pairs == DOMAIN settings

\* ------------------------------------------------- playlist name resolution
\* objectFilter(persist.playlists, (id, playlist) => playlist.name === name)
objectFilter(playlists, name) ==
    {id \in DOMAIN playlists : playlists[id].name = name}

\* playlistByNameInPersist: the record stored under the one matching key
playlistByNameInPersist(name, playlists) ==
    LET filtered == objectFilter(playlists, name)
        count    == Cardinality(filtered)
    IN  IF count = 1 THEN [kind |-> "value",
                           value |-> playlists[CHOOSE id \in filtered : TRUE]]
        ELSE IF count = 0 THEN [kind |-> "undefined"]
        ELSE [kind |-> "throw"]

\* playlistByNameInUserPlaylists: the one listed playlist with that name
playlistByNameInUserPlaylists(name, userPlaylists) ==
    LET filtered == {p \in userPlaylists : p.name = name}
        count    == Cardinality(filtered)
    IN  IF count = 1 THEN [kind |-> "value",
                           value |-> CHOOSE p \in filtered : TRUE]
        ELSE IF count = 0 THEN [kind |-> "undefined"]
        ELSE [kind |-> "throw"]

\* x?.id : the `id` property of what a lookup returned
OptId(x) ==
    IF x.kind = "value" /\ "id" \in DOMAIN x.value THEN x.value.id
    ELSE Undefined

\* element.X.id || playlistByNameInPersist(name)?.id
\*              || playlistByNameInUserPlaylists(name, userPlaylists)?.id
\* (the settings parser never sets element.X.id)
ResolveId(name, playlists, userPlaylists) ==
    LET p == playlistByNameInPersist(name, playlists)
    IN  IF p.kind = "throw" THEN [threw |-> TRUE, id |-> Undefined]
        ELSE IF OptId(p) # Undefined THEN [threw |-> FALSE, id |-> OptId(p)]
        ELSE LET u == playlistByNameInUserPlaylists(name, userPlaylists)
             IN  IF u.kind = "throw" THEN [threw |-> TRUE, id |-> Undefined]
                 ELSE [threw |-> FALSE, id |-> OptId(u)]

\* -------------------------------------------------------------- activations
NoAct == [pc |-> "none", sourceId |-> Undefined, targetId |-> Undefined,
          tracksTarget |-> <<>>, tracksSource |-> <<>>,
          newTracksWithoutDeleted |-> <<>>]

NoLog == [src |-> Undefined, tgt |-> Undefined, outcome |-> "none"]

IdleJob == [pc |-> "idle", idx |-> 0, sourceId |-> Undefined,
            userPlaylists |-> {}, auth |-> "none",
            log |-> [i \in Pairs |-> NoLog]]

\* the remote service accepts the client's access token
AuthOK == spotify.accessToken # Undefined /\ spotify.accessToken = server.access

InFlight(a) == a.pc \notin {"none", "done", "failed"}

\* ------------------------------------------------------- the archival job
\* if (!persist.playlists[id]) persist.playlists[id] = {tracks: [], blacklist: []}
EnsureRecord(playlists, id) ==
    IF id \in DOMAIN playlists THEN playlists
    ELSE (id :> [tracks |-> <<>>, blacklist |-> <<>>]) @@ playlists

\* persist.playlists[id].name = name
SetName(playlists, id, name) ==
    [playlists EXCEPT ![id] = [tracks    |-> playlists[id].tracks,
                               blacklist |-> playlists[id].blacklist,
                               name      |-> name]]

\* userPlaylists.find(p => p.id === id)
Find(userPlaylists, id) ==
    IF \E p \in userPlaylists : p.id = id
    THEN [kind |-> "value", value |-> CHOOSE p \in userPlaylists : p.id = id]
    ELSE [kind |-> "undefined"]

\* playlistArchiveContents up to its first await: the record check, then the
\* request for the target's tracks is on its way
EnterArchive(sourceId, targetId) ==
    [NoAct EXCEPT !.pc = "getTarget", !.sourceId = sourceId,
                  !.targetId = targetId]

\* a run that goes on although the probe failed
AfterCheckAuthIgnoresResult(result) == "getMe"

\* if (await checkAuth()) { ... } else { log.error('Not authorized!') }
AfterCheckAuth(result) == IF result THEN "getMe" ELSE "done"

\* What one loop iteration hands back: the job's position, persist.playlists,
\* the run's activations and the run's log; and, for the watcher of the
\* persistence (lines 301-314), the values persist.playlists passed through
\* with each assignment that changed it.
Outcome(pc, idx, sourceId, playlists, rc, log) ==
    [pc |-> pc, idx |-> idx, sourceId |-> sourceId, playlists |-> playlists,
     rc |-> rc, log |-> log, assigned |-> {}]

\* the values of a chain of assignments that differ from the value before
Changes(chain) == {chain[k] : k \in {n \in 2..Len(chain) : chain[n] # chain[n - 1]}}

RECURSIVE Loop(_, _, _, _, _)

\* lines 467-492 for pair i with both ids in hand, then the rest of the loop
Archive(i, sourceId, targetId, userPlaylists, playlists, rc, log) ==
    LET s   == Find(userPlaylists, sourceId)
        t   == Find(userPlaylists, targetId)
    IN  IF s.kind = "undefined" \/ t.kind = "undefined"
        THEN \* TypeError reading .name of undefined: caught at line 497
             Outcome("done", 0, Undefined, playlists, rc,
                     [log EXCEPT ![i] = [src |-> sourceId, tgt |-> targetId,
                                         outcome |-> "typeError"]])
        ELSE LET p1 == EnsureRecord(playlists, targetId)
                 p2 == EnsureRecord(p1, sourceId)
                 p3 == SetName(p2, sourceId, s.value.name)
                 p4 == SetName(p3, targetId, t.value.name)
                 p5 == EnsureRecord(p4, targetId)
                 rest == Loop(i + 1, userPlaylists, p5,
                      [rc EXCEPT ![i] = EnterArchive(sourceId, targetId)],
                      [log EXCEPT ![i] = [src |-> sourceId, tgt |-> targetId,
                                          outcome |-> "archiving"]])
             IN  [rest EXCEPT !.assigned =
                      Changes(<<playlists, p1, p2, p3, p4, p5>>) \cup @]

\* for (const element of settings.archiver), from pair i on, up to the next
\* await (createPlaylist), a throw, or the end of the list
Loop(i, userPlaylists, playlists, rc, log) ==
    IF i \notin Pairs
    THEN Outcome("done", 0, Undefined, playlists, rc, log)
    ELSE
    LET element == settings[i]
        s == ResolveId(element.source.name, playlists, userPlaylists)
        t == ResolveId(element.target.name, playlists, userPlaylists)
    IN  IF s.threw
        THEN Outcome("done", 0, Undefined, playlists, rc,
                     [log EXCEPT ![i] = [src |-> Undefined, tgt |-> Undefined,
                                         outcome |-> "sourceNotUnique"]])
        ELSE IF t.threw
        THEN Outcome("done", 0, Undefined, playlists, rc,
                     [log EXCEPT ![i] = [src |-> s.id, tgt |-> Undefined,
                                         outcome |-> "targetNotUnique"]])
        ELSE IF s.id # Undefined /\ t.id = Undefined
        THEN Outcome("createPlaylist", i, s.id, playlists, rc,
                     [log EXCEPT ![i] = [src |-> s.id, tgt |-> Undefined,
                                         outcome |-> "creating"]])
        ELSE IF s.id # Undefined /\ t.id # Undefined
        THEN Archive(i, s.id, t.id, userPlaylists, playlists, rc, log)
        ELSE Loop(i + 1, userPlaylists, playlists, rc,
                  [log EXCEPT ![i] = [src |-> s.id, tgt |-> t.id,
                                      outcome |-> "skipped"]])

\* the job's variables after a stretch of the loop
ApplyOutcome(r, o, userPlaylists) ==
    /\ job' = [job EXCEPT ![r] = [@ EXCEPT !.pc = o.pc, !.idx = o.idx,
                                           !.sourceId = o.sourceId,
                                           !.userPlaylists = userPlaylists,
                                           !.log = o.log]]
    /\ persist' = [persist EXCEPT !.playlists = o.playlists]
    /\ rec' = [rec EXCEPT ![r] = o.rc]

SlotFree(r) ==
    /\ job[r].pc \in {"idle", "done"}
    /\ \A i \in Pairs : ~InFlight(rec[r][i])

\* the job function is entered: the schedule fires, or mainScheduler.invoke()
JobBegin(r) ==
    /\ job' = [job EXCEPT ![r] = [IdleJob EXCEPT !.pc = "checkAuth"]]
    /\ rec' = [rec EXCEPT ![r] = [i \in Pairs |-> NoAct]]

\* mainScheduler.invoke(): the job function is entered (in the model, in the
\* lowest free slot)
Invoke ==
    \E r \in Runs :
        /\ SlotFree(r)
        /\ \A q \in Runs : q < r => ~SlotFree(q)
        /\ JobBegin(r)

\* the schedule fires: the job function is entered, whatever else is in
\* flight (in the model, in the lowest free slot)
ScheduleFires(r) ==
    /\ SlotFree(r)
    /\ \A q \in Runs : q < r => ~SlotFree(q)
    /\ JobBegin(r)
    /\ UNCHANGED <<settings, callback, remote, globalBlacklist, server, spotify, persist,
                   refreshTimer, startup>>

\* line 445: checkAuth() settles; any failure of getMe gives false
JobCheckAuth(r) ==
    /\ job[r].pc = "checkAuth"
    /\ \E result \in (IF AuthOK THEN {TRUE, FALSE} ELSE {FALSE}) :
          job' = [job EXCEPT ![r] = [@ EXCEPT
                     !.pc = AfterCheckAuth(result),
                     !.auth = IF result THEN "ok" ELSE "denied"]]
    /\ UNCHANGED <<settings, callback, remote, globalBlacklist, server, spotify, persist,
                   refreshTimer, startup, rec>>

\* line 446: getMe() is answered
JobGetMe(r) ==
    /\ job[r].pc = "getMe"
    /\ AuthOK
    /\ job' = [job EXCEPT ![r] = [@ EXCEPT !.pc = "getAllUserPlaylists"]]
    /\ UNCHANGED <<settings, callback, remote, globalBlacklist, server, spotify, persist,
                   refreshTimer, startup, rec>>

\* what getAllUserPlaylists returns: the user's playlists as they are now
UserPlaylists == {[id |-> id, name |-> remote[id].name] : id \in DOMAIN remote}

\* line 447: the remote side serves getAllUserPlaylists; the list is on its
\* way to the job
JobGetAllUserPlaylists(r) ==
    /\ job[r].pc = "getAllUserPlaylists"
    /\ AuthOK
    /\ job' = [job EXCEPT ![r] = [@ EXCEPT !.pc = "loop",
                                           !.userPlaylists = UserPlaylists]]
    /\ UNCHANGED <<settings, callback, remote, globalBlacklist, server, spotify, persist,
                   refreshTimer, startup, rec>>

\* the loop from its start, with the list the run was sent
LoopOutcome(r) ==
    Loop(1, job[r].userPlaylists, persist.playlists, rec[r], job[r].log)

\* lines 447-493: the list arrives, and the loop runs up to its first await
JobLoop(r) ==
    /\ job[r].pc = "loop"
    /\ ApplyOutcome(r, LoopOutcome(r), job[r].userPlaylists)
    /\ UNCHANGED <<settings, callback, remote, globalBlacklist, server, spotify,
                   refreshTimer, startup>>

\* lines 446-447: a remote call of the job fails; the throw is caught at 497
JobCallFails(r) ==
    /\ job[r].pc \in {"getMe", "getAllUserPlaylists"}
    /\ job' = [job EXCEPT ![r] = [@ EXCEPT !.pc = "done"]]
    /\ UNCHANGED <<settings, callback, remote, globalBlacklist, server, spotify, persist,
                   refreshTimer, startup, rec>>

\* the id the remote service gives a new playlist: one not in use
FreshId == CHOOSE id \in Ids : id \notin DOMAIN remote

\* lines 467-492 and the rest of the loop, with the id of the new playlist
CreatedOutcome(r) ==
    Archive(job[r].idx, job[r].sourceId, FreshId, job[r].userPlaylists,
            persist.playlists, rec[r], job[r].log)

\* lines 460-461: createPlaylist is answered; then lines 467-492 and the loop
JobCreatePlaylist(r) ==
    /\ job[r].pc = "createPlaylist"
    /\ AuthOK
    /\ \E id \in Ids : id \notin DOMAIN remote
    /\ LET i == job[r].idx
           targetId == FreshId
       IN  /\ remote' = (targetId :> [name |-> settings[i].target.name,
                                      tracks |-> <<>>]) @@ remote
           /\ ApplyOutcome(r, CreatedOutcome(r), job[r].userPlaylists)
    /\ UNCHANGED <<settings, callback, globalBlacklist, server, spotify, refreshTimer,
                   startup>>

\* lines 462-464: createPlaylist fails, the error is logged; targetId stays
\* undefined, line 491 warns and the loop goes on
NotCreatedOutcome(r) ==
    Loop(job[r].idx + 1, job[r].userPlaylists, persist.playlists, rec[r],
         [job[r].log EXCEPT ![job[r].idx].outcome = "createFailed"])

JobCreatePlaylistFails(r) ==
    /\ job[r].pc = "createPlaylist"
    /\ ApplyOutcome(r, NotCreatedOutcome(r), job[r].userPlaylists)
    /\ UNCHANGED <<settings, callback, remote, globalBlacklist, server, spotify,
                   refreshTimer, startup>>

\* ------------------------------------------------- playlistArchiveContents
SetAct(r, i, a) == rec' = [rec EXCEPT ![r][i] = a]

\* line 577: the remote side serves getTracks(targetId)
GetTracksTarget(r, i) ==
    LET a == rec[r][i] IN
    /\ a.pc = "getTarget"
    /\ AuthOK
    /\ SetAct(r, i, [a EXCEPT !.pc = "detect",
                              !.tracksTarget = remote[a.targetId].tracks])
    /\ UNCHANGED <<settings, callback, remote, globalBlacklist, server, spotify, persist,
                   refreshTimer, startup, job>>

\* the removed tracks taken for what the target holds beyond the snapshot
DeletedByMeSwapped(tracks, tracksTarget) == diff(tracksTarget, tracks)

\* line 580: const deletedByMe = diff(persist.playlists[targetId].tracks,
\*                                   tracksTarget)
DeletedByMe(tracks, tracksTarget) == diff(tracks, tracksTarget)

\* lines 580-581, then the request of line 584 is on its way
DetectDeleted(r, i) ==
    LET a == rec[r][i]
        p == persist.playlists[a.targetId]
        deletedByMe == DeletedByMe(p.tracks, a.tracksTarget)
    IN
    /\ a.pc = "detect"
    /\ persist' = [persist EXCEPT !.playlists[a.targetId].blacklist =
                                      mergeUnique(p.blacklist, deletedByMe)]
    /\ SetAct(r, i, [a EXCEPT !.pc = "getSource"])
    /\ UNCHANGED <<settings, callback, remote, globalBlacklist, server, spotify,
                   refreshTimer, startup, job>>

\* line 584: the remote side serves getTracks(sourceId)
GetTracksSource(r, i) ==
    LET a == rec[r][i] IN
    /\ a.pc = "getSource"
    /\ AuthOK
    /\ SetAct(r, i, [a EXCEPT !.pc = "compute",
                              !.tracksSource = remote[a.sourceId].tracks])
    /\ UNCHANGED <<settings, callback, remote, globalBlacklist, server, spotify, persist,
                   refreshTimer, startup, job>>

\* the addition list when what the target already holds is not subtracted
NewTracksIgnoringTarget(tracksSource, tracksTarget, blacklist) ==
    diff(tracksSource, blacklist)

\* the addition list when the blacklist is not subtracted
NewTracksWithDeleted(tracksSource, tracksTarget, blacklist) ==
    diff(tracksSource, tracksTarget)

\* lines 587-588
NewTracksWithoutDeleted(tracksSource, tracksTarget, blacklist) ==
    LET newTracks == diff(tracksSource, tracksTarget)
    IN  diff(newTracks, blacklist)

\* lines 587-591: the list is computed and addTracks is entered; with an
\* empty list addTracks returns at once (line 560) and line 594 is next
ComputeNewTracks(r, i) ==
    LET a == rec[r][i]
        list == NewTracksWithoutDeleted(a.tracksSource, a.tracksTarget,
                    persist.playlists[a.targetId].blacklist)
    IN
    /\ a.pc = "compute"
    /\ SetAct(r, i, [a EXCEPT
                        !.pc = IF Len(list) > 0 THEN "addTracks" ELSE "getTarget2",
                        !.tracksSource = <<>>, !.tracksTarget = <<>>,
                        !.newTracksWithoutDeleted = list])
    /\ UNCHANGED <<settings, callback, remote, globalBlacklist, server, spotify, persist,
                   refreshTimer, startup, job>>

\* the snapshot written together with the addition, as the previous
\* snapshot plus the computed additions
AddTracksSavesSnapshot(r, i) ==
    LET a == rec[r][i] IN
    /\ a.pc = "addTracks"
    /\ AuthOK
    /\ remote' = [remote EXCEPT ![a.targetId].tracks =
                                    @ \o a.newTracksWithoutDeleted]
    /\ persist' = [persist EXCEPT !.playlists[a.targetId].tracks =
                                      @ \o a.newTracksWithoutDeleted]
    /\ SetAct(r, i, [a EXCEPT !.pc = "getTarget2"])
    /\ UNCHANGED <<settings, callback, globalBlacklist, server, spotify,
                   refreshTimer, startup, job>>

\* line 561: the remote side appends the list; then line 594 asks for the
\* target's tracks
AddTracks(r, i) ==
    LET a == rec[r][i] IN
    /\ a.pc = "addTracks"
    /\ AuthOK
    /\ remote' = [remote EXCEPT ![a.targetId].tracks =
                                    @ \o a.newTracksWithoutDeleted]
    /\ SetAct(r, i, [a EXCEPT !.pc = "getTarget2"])
    /\ UNCHANGED <<settings, callback, globalBlacklist, server, spotify, persist,
                   refreshTimer, startup, job>>

\* line 594, right-hand side: the remote side serves getTracks(targetId)
GetTracksTargetAgain(r, i) ==
    LET a == rec[r][i] IN
    /\ a.pc = "getTarget2"
    /\ AuthOK
    /\ SetAct(r, i, [a EXCEPT !.pc = "save",
                              !.tracksTarget = remote[a.targetId].tracks])
    /\ UNCHANGED <<settings, callback, remote, globalBlacklist, server, spotify, persist,
                   refreshTimer, startup, job>>

\* line 594, the assignment
SaveTracks(r, i) ==
    LET a == rec[r][i] IN
    /\ a.pc = "save"
    /\ persist' = [persist EXCEPT !.playlists[a.targetId].tracks = a.tracksTarget]
    /\ SetAct(r, i, [a EXCEPT !.pc = "done", !.tracksTarget = <<>>,
                              !.newTracksWithoutDeleted = <<>>])
    /\ UNCHANGED <<settings, callback, remote, globalBlacklist, server, spotify,
                   refreshTimer, startup, job>>

\* a remote call of the activation fails: the promise rejects, nobody handles it
ArchiveCallFails(r, i) ==
    LET a == rec[r][i] IN
    /\ a.pc \in {"getTarget", "getSource", "addTracks", "getTarget2"}
    /\ SetAct(r, i, [NoAct EXCEPT !.pc = "failed", !.sourceId = a.sourceId,
                                  !.targetId = a.targetId])
    /\ UNCHANGED <<settings, callback, remote, globalBlacklist, server, spotify, persist,
                   refreshTimer, startup, job>>

\* ------------------------------------------------------------- environment
TargetNames == {settings[i].target.name : i \in Pairs}
SourceNames == {settings[i].source.name : i \in Pairs}

\* the user removes a track from a proxy playlist
UserRemovesTrack(id, t) ==
    /\ id \in DOMAIN remote
    /\ remote[id].name \in TargetNames
    /\ includes(remote[id].tracks, t)
    /\ remote' = [remote EXCEPT ![id].tracks = filterSeq(@, Tracks \ {t})]
    /\ UNCHANGED <<settings, callback, globalBlacklist, server, spotify, persist,
                   refreshTimer, startup, job, rec>>

\* the curator of a source playlist adds a track to it
CuratorAddsTrack(id, t) ==
    /\ id \in DOMAIN remote
    /\ remote[id].name \in SourceNames
    /\ ~includes(remote[id].tracks, t)
    /\ remote' = [remote EXCEPT ![id].tracks = Append(@, t)]
    /\ UNCHANGED <<settings, callback, globalBlacklist, server, spotify, persist,
                   refreshTimer, startup, job, rec>>

\* the access token runs out
AccessTokenExpires ==
    /\ server.access # Undefined
    /\ server' = [server EXCEPT !.access = Undefined]
    /\ UNCHANGED <<settings, callback, remote, globalBlacklist, spotify, persist,
                   refreshTimer, startup, job, rec>>

\* -------------------------------------------------------------- credentials
\* the timer's callback is entered and waits at line 360
exec(timer) == [timer EXCEPT !.pending = @ + 1]

\* lines 378-385: the start-up probe settles
StartupCheckAuth ==
    /\ startup = "checkAuth"
    /\ startup' = "done"
    /\ \E result \in (IF AuthOK THEN {TRUE, FALSE} ELSE {FALSE}) :
          IF result
          THEN \* refreshTimer.exec() and mainScheduler.invoke() (a run that
               \* finds no slot is beyond MaxRuns and is left out)
               /\ refreshTimer' = exec(refreshTimer)
               /\ IF \E r \in Runs : SlotFree(r)
                  THEN Invoke
                  ELSE UNCHANGED <<job, rec>>
          ELSE UNCHANGED <<refreshTimer, job, rec>>
    /\ UNCHANGED <<settings, callback, remote, globalBlacklist, server, spotify, persist>>

\* the interval taken for the whole lifetime
RefreshIntervalWholeLifetime(expiresIn) == expiresIn * 1000

\* refreshInterval = expiresIn / 2 * 1000 (milliseconds; JavaScript numbers,
\* so an odd expiresIn gives its half exactly: 3599 gives 1799500)
RefreshInterval(expiresIn) == expiresIn * 500

\* refreshTimer.restart(interval): the timer runs with that interval
restart(timer, interval) == [timer EXCEPT !.interval = interval]

\* lines 359-360: the armed timer fires; its callback sends the refresh
\* request and waits, whatever callbacks still wait
TimerFires ==
    /\ refreshTimer.interval # Undefined
    /\ refreshTimer.pending < MaxRefresh
    /\ refreshTimer' = exec(refreshTimer)
    /\ UNCHANGED <<settings, callback, remote, globalBlacklist, server, spotify, persist,
                   startup, job, rec>>

\* lines 360-374: a callback of the timer, started by exec() or by the armed
\* timer, goes on with the refresh granted: the remote service hands out
\* accessToken, valid for expiresIn seconds
RefreshAccessTokenWith(accessToken, expiresIn) ==
    /\ refreshTimer.pending > 0
    /\ spotify.refreshToken # Undefined
    /\ spotify.refreshToken = server.refresh
    /\ server' = [server EXCEPT !.access = accessToken]
    /\ spotify' = [spotify EXCEPT !.accessToken = accessToken]
    /\ persist' = [persist EXCEPT !.tokens.accessToken = accessToken]
    /\ LET refreshInterval == RefreshInterval(expiresIn)
           ran == [refreshTimer EXCEPT !.pending = @ - 1]
       IN  refreshTimer' = IF refreshInterval # refreshTimer.interval
                           THEN restart(ran, refreshInterval)
                           ELSE ran
    /\ UNCHANGED <<settings, callback, remote, globalBlacklist, startup, job, rec>>

RefreshAccessToken ==
    \E accessToken \in Tokens, expiresIn \in server.lifetimes :
        RefreshAccessTokenWith(accessToken, expiresIn)

\* line 360 throws: the callback ends there, the timer stays as it was
RefreshFails ==
    /\ refreshTimer.pending > 0
    /\ refreshTimer' = [refreshTimer EXCEPT !.pending = @ - 1]
    /\ UNCHANGED <<settings, callback, remote, globalBlacklist, server, spotify, persist,
                   startup, job, rec>>

\* ------------------------------------------------- the /callback handler
\* lines 395-408: a request arrives.  With an error parameter it is answered
\* at once and nothing changes; else the code exchange is on its way.
CallbackRequest(error) ==
    /\ IF error
       THEN callback' = callback
       ELSE /\ callback.grant + callback.checkAuth < MaxCallbacks
            /\ callback' = [callback EXCEPT !.grant = @ + 1]
    /\ UNCHANGED <<settings, remote, globalBlacklist, server, spotify, persist,
                   refreshTimer, startup, job, rec>>

\* refreshTimer.restart as the handler calls it
CallbackRestart(timer, expiresIn) == restart(timer, RefreshInterval(expiresIn))

\* the handler storing a fresh document that holds the new tokens only
CallbackGrantedFreshStore(accessToken, refreshToken, expiresIn) ==
    /\ callback.grant > 0
    /\ callback' = [grant |-> callback.grant - 1,
                    checkAuth |-> callback.checkAuth + 1]
    /\ server' = [server EXCEPT !.access = accessToken,
                                !.refresh = refreshToken]
    /\ spotify' = [accessToken |-> accessToken, refreshToken |-> refreshToken]
    /\ persist' = [tokens |-> [accessToken |-> accessToken,
                               refreshToken |-> refreshToken],
                   playlists |-> <<>>]
    /\ refreshTimer' = CallbackRestart(refreshTimer, expiresIn)
    /\ UNCHANGED <<settings, remote, globalBlacklist, startup, job, rec>>

\* lines 408-423: authorizationCodeGrant is answered with a new pair of
\* tokens; both are stored, the timer is restarted, the probe is on its way
CallbackGranted(accessToken, refreshToken, expiresIn) ==
    /\ callback.grant > 0
    /\ callback' = [grant |-> callback.grant - 1,
                    checkAuth |-> callback.checkAuth + 1]
    /\ server' = [server EXCEPT !.access = accessToken,
                                !.refresh = refreshToken]
    /\ spotify' = [accessToken |-> accessToken, refreshToken |-> refreshToken]
    /\ persist' = [persist EXCEPT !.tokens = [accessToken |-> accessToken,
                                              refreshToken |-> refreshToken]]
    /\ refreshTimer' = CallbackRestart(refreshTimer, expiresIn)
    /\ UNCHANGED <<settings, remote, globalBlacklist, startup, job, rec>>

\* lines 433-436: the code exchange fails
CallbackGrantFails ==
    /\ callback.grant > 0
    /\ callback' = [callback EXCEPT !.grant = @ - 1]
    /\ UNCHANGED <<settings, remote, globalBlacklist, server, spotify, persist,
                   refreshTimer, startup, job, rec>>

\* the handler never invoking the job
CallbackCheckAuthNeverInvokes(result) ==
    /\ callback.checkAuth > 0
    /\ result => AuthOK
    /\ callback' = [callback EXCEPT !.checkAuth = @ - 1]
    /\ UNCHANGED <<settings, remote, globalBlacklist, server, spotify, persist,
                   refreshTimer, startup, job, rec>>

\* lines 425-431: the probe settles with result (true takes a token the
\* remote service accepts); the job is invoked if it is true
CallbackCheckAuthWith(result) ==
    /\ callback.checkAuth > 0
    /\ result => AuthOK
    /\ callback' = [callback EXCEPT !.checkAuth = @ - 1]
    /\ IF result THEN Invoke ELSE UNCHANGED <<job, rec>>
    /\ UNCHANGED <<settings, remote, globalBlacklist, server, spotify, persist,
                   refreshTimer, startup>>

CallbackCheckAuth == \E result \in BOOLEAN : CallbackCheckAuthWith(result)

\* the handler goes on after a request was taken
CallbackSettles ==
    \/ \E accessToken \in Tokens, refreshToken \in Tokens,
          expiresIn \in server.lifetimes :
          CallbackGranted(accessToken, refreshToken, expiresIn)
    \/ CallbackGrantFails
    \/ CallbackCheckAuth

Callback ==
    \/ \E error \in BOOLEAN : CallbackRequest(error)
    \/ CallbackSettles

\* ----------------------------------------------------------- initial states
\* The process starts: settings and persistence are loaded (lines 287-344),
\* the client takes the persisted tokens (lines 351-357), nothing has run.
InitFrom(yamlfile, world, tokens, accepted, global, playlists) ==
    /\ settings = ParseSettings(yamlfile)
    /\ remote = world
    /\ globalBlacklist = global
    /\ server = accepted
    /\ persist = [tokens |-> tokens, playlists |-> playlists]
    /\ spotify = tokens
    /\ refreshTimer = [interval |-> Undefined, pending |-> 0]
    /\ startup = "checkAuth"
    /\ callback = [grant |-> 0, checkAuth |-> 0]
    /\ job = [r \in Runs |-> IdleJob]
    /\ rec = [r \in Runs |-> [i \in Pairs |-> NoAct]]
    /\ removedByUser = [id \in Ids |-> {}]
    /\ disturbed = FALSE
    /\ settled = {}
    /\ file = [tokens |-> tokens, playlists |-> playlists]
    /\ writes = EmptyBag
    /\ failed = FALSE
    /\ rejected = FALSE

\* the same, with no playlist record in the persistence file
InitWith(yamlfile, world, tokens, accepted, global) ==
    InitFrom(yamlfile, world, tokens, accepted, global, <<>>)

Playlist(name, tracks) == [name |-> name, tracks |-> tracks]

\* tokens of an earlier authorization, still accepted
Granted == [accessToken |-> 1, refreshToken |-> 1]
Accepting == [access |-> 1, refresh |-> 1, lifetimes |-> Lifetimes]

SourceA(tracks) == 1 :> Playlist("A", tracks)
ProxyA == 2 :> Playlist("A (save)", <<>>)

\* One archiver entry, "A".  The source holds one track; the proxy playlist
\* exists and is empty, or does not exist yet.
Init ==
    \E world \in {SourceA(<<1>>) @@ ProxyA, SourceA(<<1>>)} :
        InitWith(<<"A">>, world, Granted, Accepting, {})

Reconcile(r, i) ==
    \/ GetTracksTarget(r, i)
    \/ DetectDeleted(r, i)
    \/ GetTracksSource(r, i)
    \/ ComputeNewTracks(r, i)
    \/ AddTracks(r, i)
    \/ GetTracksTargetAgain(r, i)
    \/ ArchiveCallFails(r, i)

Job(r) ==
    \/ JobCheckAuth(r)
    \/ JobGetMe(r)
    \/ JobGetAllUserPlaylists(r)
    \/ JobLoop(r)
    \/ JobCallFails(r)
    \/ JobCreatePlaylist(r)
    \/ JobCreatePlaylistFails(r)

Credentials ==
    \/ TimerFires
    \/ RefreshAccessToken
    \/ RefreshFails
    \/ AccessTokenExpires

\* every step of the program but those that begin a run or end a reconcile
Program ==
    \/ \E r \in Runs : Job(r)
    \/ \E r \in Runs, i \in Pairs : Reconcile(r, i)
    \/ Credentials

\* Runs may overlap: the schedule fires whenever a slot of the model is free.
\* The user edits the proxy playlist; the source keeps its tracks.
Next ==
    \/ Program /\ UNCHANGED hist
    \/ StartupCheckAuth /\ UNCHANGED hist
    \/ (\E r \in Runs, i \in Pairs : SaveTracks(r, i)) /\ UNCHANGED hist
    \/ (\E r \in Runs : ScheduleFires(r)) /\ UNCHANGED hist
    \/ (\E id \in Ids, t \in Tracks : UserRemovesTrack(id, t)) /\ UNCHANGED hist

Spec == Init /\ [][Next]_vars

\* ---------------------------------------------------- one run at a time
\* no run and no reconcile is in flight
Quiescent == \A r \in Runs : SlotFree(r)

\* the cron time of a schedule that leaves the start-up probe and each run
\* the time to end
Calm == startup = "done" /\ Quiescent

\* the run that begins has seen no outside edit yet
RunBegins ==
    /\ disturbed' = FALSE
    /\ UNCHANGED <<removedByUser, settled, store, rejected>>

\* a reconcile of targetId has completed
ReconcileEnds(targetId) ==
    /\ settled' = IF disturbed THEN settled \ {targetId}
                  ELSE settled \cup {targetId}
    /\ UNCHANGED <<removedByUser, disturbed, store, rejected>>

\* somebody outside the program edited a remote list
OutsideEdit ==
    /\ disturbed' = TRUE
    /\ settled' = {}
    /\ removedByUser' = [id \in Ids |->
           IF id \in DOMAIN remote
           THEN removedByUser[id]
                \cup (Range(remote[id].tracks) \ Range(remote'[id].tracks))
           ELSE removedByUser[id]]
    /\ UNCHANGED <<store, rejected>>

\* One archiver entry, "A"; the curator may add tracks to the source.
InitSeq ==
    \E world \in {SourceA(<<1>>) @@ ProxyA, SourceA(<<1>>)},
       global \in {{}, {1}} :
        InitWith(<<"A">>, world, Granted, Accepting, global)

\* The schedule fires only when the run before it has ended with all its
\* reconciles (the cadence the schedule is configured for).
NextSeq ==
    \/ Program /\ UNCHANGED hist
    \/ StartupCheckAuth /\ RunBegins
    \/ \E r \in Runs, i \in Pairs :
          SaveTracks(r, i) /\ ReconcileEnds(rec[r][i].targetId)
    \/ (\E r \in Runs : Calm /\ ScheduleFires(r)) /\ RunBegins
    \/ (\E id \in Ids, t \in Tracks : UserRemovesTrack(id, t)) /\ OutsideEdit
    \/ (\E id \in Ids, t \in Tracks : CuratorAddsTrack(id, t)) /\ OutsideEdit

SpecSeq == InitSeq /\ [][NextSeq]_vars

\* ------------------------------------------- two entries, playlists renamed
\* the name the model's user gives to playlists: that of the first proxy
Renamed == {settings[1].target.name}

\* the owner of a playlist gives it another name
UserRenamesPlaylist(id, name) ==
    /\ id \in DOMAIN remote
    /\ remote[id].name # name
    /\ remote' = [remote EXCEPT ![id].name = name]
    /\ UNCHANGED <<settings, callback, globalBlacklist, server, spotify, persist,
                   refreshTimer, startup, job, rec>>

\* Two archiver entries, "A" and "B"; both sources exist, no proxy does.
InitJob ==
    InitWith(<<"A", "B">>,
             SourceA(<<1>>) @@ (2 :> Playlist("B", <<1>>)),
             Granted, Accepting, {})

\* One run at a time; playlists are renamed, their tracks are left alone.
NextJob ==
    \/ Program /\ UNCHANGED hist
    \/ StartupCheckAuth /\ UNCHANGED hist
    \/ (\E r \in Runs, i \in Pairs : SaveTracks(r, i)) /\ UNCHANGED hist
    \/ (\E r \in Runs : Calm /\ ScheduleFires(r)) /\ UNCHANGED hist
    \/ (\E id \in Ids, name \in Renamed : UserRenamesPlaylist(id, name))
          /\ UNCHANGED hist

SpecJob == InitJob /\ [][NextJob]_vars

\* ------------------------------------- the credentials, with no login/callback
\* The process starts with the persisted tokens of an earlier authorization:
\* the refresh token is valid, the access token is still accepted or has
\* already expired.
InitCred ==
    \E world \in {SourceA(<<1>>) @@ ProxyA, SourceA(<<1>>)},
       access \in {Undefined} \cup Tokens :
        InitWith(<<"A">>, world, Granted,
                 [Accepting EXCEPT !.access = access], {})

\* lines 359-360: the timer's callback is an async function with no catch,
\* so the rejection of refreshAccessToken is handled by nobody
Rejected ==
    /\ rejected' = TRUE
    /\ UNCHANGED <<seen, store>>

\* One run at a time; nobody logs in again, nobody edits a playlist.
NextCred ==
    \/ (\E r \in Runs : Job(r)) /\ UNCHANGED hist
    \/ (\E r \in Runs, i \in Pairs : Reconcile(r, i)) /\ UNCHANGED hist
    \/ (TimerFires \/ RefreshAccessToken \/ AccessTokenExpires) /\ UNCHANGED hist
    \/ RefreshFails /\ Rejected
    \/ StartupCheckAuth /\ UNCHANGED hist
    \/ (\E r \in Runs, i \in Pairs : SaveTracks(r, i)) /\ UNCHANGED hist
    \/ (\E r \in Runs : Calm /\ ScheduleFires(r)) /\ UNCHANGED hist

\* A rejection that nobody handles ends the process (node 15, Dockerfile).
\* Line 489 starts playlistArchiveContents without await or catch, and the
\* timer's callback (lines 359-375) has no catch either: the process runs
\* as long as no remote call of a reconcile and no refresh was rejected.
Running ==
    /\ \A r \in Runs, i \in Pairs : rec[r][i].pc # "failed"
    /\ ~rejected

\* While the process runs: the start-up probe settles, a timer callback that
\* is due runs, the schedule keeps firing and the probe of each run settles.
\* A process that has ended owes no further step.
FairCred ==
    /\ WF_vars(Running /\ StartupCheckAuth /\ UNCHANGED hist)
    /\ WF_vars(Running /\ (\E r \in Runs : JobCheckAuth(r)) /\ UNCHANGED hist)
    /\ WF_vars(Running /\ TimerFires /\ UNCHANGED hist)
    /\ WF_vars(Running /\ RefreshAccessToken /\ UNCHANGED hist)
    /\ WF_vars(Running /\ (\E r \in Runs : Calm /\ ScheduleFires(r))
                       /\ UNCHANGED hist)

SpecCred == InitCred /\ [][NextCred]_vars /\ FairCred

\* ------------------------------------------------ lifetimes that vary
\* the remote service reports an even or an odd lifetime
VaryingLifetimes == {3600, 3599}

\* The process starts with the tokens of an earlier authorization, both
\* still accepted; each refresh reports one lifetime or the other.
InitTimer ==
    \E world \in {SourceA(<<1>>) @@ ProxyA, SourceA(<<1>>)} :
        InitWith(<<"A">>, world, Granted,
                 [Accepting EXCEPT !.lifetimes = VaryingLifetimes], {})

SpecTimer == InitTimer /\ [][NextCred]_vars

\* ------------------------------------- overlapping runs, two tracks in play
\* a playlist record as a completed reconcile leaves it
Record(name, tracks, blacklist) ==
    [name |-> name, tracks |-> tracks, blacklist |-> blacklist]

\* The process starts again after an earlier execution archived "A": the
\* proxy holds both tracks of the source and the persistence file holds the
\* records of that run.
InitOverlap ==
    InitFrom(<<"A">>,
             SourceA(<<1, 2>>) @@ (2 :> Playlist("A (save)", <<1, 2>>)),
             Granted, Accepting, {},
             (1 :> Record("A", <<>>, <<>>))
                @@ (2 :> Record("A (save)", <<1, 2>>, <<>>)))

\* Runs may overlap and the user removes tracks from the proxy; the tokens
\* stay valid meanwhile (the steps of the refresh timer are left out), and
\* with the proxy in place no run reaches createPlaylist.
NextOverlap ==
    \/ (\E r \in Runs : \/ JobCheckAuth(r)
                         \/ JobGetMe(r)
                         \/ JobGetAllUserPlaylists(r)
                         \/ JobLoop(r)
                         \/ JobCallFails(r)) /\ UNCHANGED hist
    \/ (\E r \in Runs, i \in Pairs : Reconcile(r, i)) /\ UNCHANGED hist
    \/ StartupCheckAuth /\ UNCHANGED hist
    \/ (\E r \in Runs, i \in Pairs : SaveTracks(r, i)) /\ UNCHANGED hist
    \/ (\E r \in Runs : ScheduleFires(r)) /\ UNCHANGED hist
    \/ (\E id \in Ids, t \in Tracks : UserRemovesTrack(id, t)) /\ UNCHANGED hist

SpecOverlap == InitOverlap /\ [][NextOverlap]_vars

\* ------------------------------------------------ the operator logs in
\* never authorized: the persistence file holds no tokens
NoTokens == [accessToken |-> Undefined, refreshToken |-> Undefined]
Refusing == [Accepting EXCEPT !.access = Undefined, !.refresh = Undefined]

\* One archiver entry, "A".  The process starts with the tokens of an earlier
\* authorization, or with none.
InitAuth ==
    \E world \in {SourceA(<<1>>) @@ ProxyA, SourceA(<<1>>)},
       auth \in {<<Granted, Accepting>>, <<NoTokens, Refusing>>} :
        InitWith(<<"A">>, world, auth[1], auth[2], {})

\* The schedule fires one run at a time; the run that a callback invokes
\* begins whatever else is in flight.
NextAuth ==
    \/ Program /\ UNCHANGED hist
    \/ StartupCheckAuth /\ UNCHANGED hist
    \/ (\E r \in Runs, i \in Pairs : SaveTracks(r, i)) /\ UNCHANGED hist
    \/ (\E r \in Runs : Calm /\ ScheduleFires(r)) /\ UNCHANGED hist
    \/ Callback /\ UNCHANGED hist

SpecAuth == InitAuth /\ [][NextAuth]_vars

\* ------------------------------------------------------- long addition lists
\* the most track URIs the remote service takes in one add-tracks request
ChunkLimit == 100

\* source playlists as long as, and longer than, one request may carry
AddSizes == {1, ChunkLimit, ChunkLimit + 1, 2 * ChunkLimit + 50}

\* the track list 1, 2, ..., n
Numbered(n) == [k \in 1..n |-> k]

\* One archiver entry, "A"; the source holds n tracks, the proxy none.
InitAdd ==
    \E n \in AddSizes :
      \E world \in {SourceA(Numbered(n)) @@ ProxyA, SourceA(Numbered(n))} :
        InitWith(<<"A">>, world, Granted, Accepting, {})

SpecAdd == InitAdd /\ [][NextCred]_vars

\* ==================================================================== claims
Acts == {<<r, i>> : r \in Runs, i \in Pairs}
Act(x) == rec[x[1]][x[2]]

\* ------------------------------------------------------ the persistence file
\* lines 301-314: the watcher's callback runs inside every assignment that
\* changes the watched object (a primitive that differs from the one stored,
\* or an object or array, which is new each time); it serialises the whole
\* document at once and hands it to fs.writeFile, which finishes later.

\* lines 368 and 417-418: the documents of the token assignments, the access
\* token first
Documents(before, after) ==
    {d \in {[before EXCEPT !.tokens.accessToken = after.tokens.accessToken],
            after} : d # before}

\* the documents a step of the program hands to fs.writeFile
Issued ==
    IF \E r \in Runs, i \in Pairs : DetectDeleted(r, i) \/ SaveTracks(r, i)
    THEN \* lines 581 and 594: an array is assigned
         {persist'}
    ELSE IF \E r \in Runs : JobLoop(r) \/ JobCreatePlaylist(r)
                               \/ JobCreatePlaylistFails(r)
    THEN \* lines 471-486
         {[persist EXCEPT !.playlists = p] :
             p \in UNION {IF JobLoop(r) THEN LoopOutcome(r).assigned
                          ELSE IF JobCreatePlaylist(r)
                          THEN CreatedOutcome(r).assigned
                          ELSE IF JobCreatePlaylistFails(r)
                          THEN NotCreatedOutcome(r).assigned
                          ELSE {} : r \in Runs}}
    ELSE Documents(persist, persist')

\* a file that holds no document: parts of several, or the beginning of one
Unparsable == [unparsable |-> TRUE]

\* fs.writeFile calls on the same path that are in flight together race:
\* each opens the file with truncation and writes from its start, so when
\* one of them is reported finished the file may hold its document, the
\* whole document of a write it raced with, or no document.

\* the calls in flight, one element for each
Calls == UNION {{<<w, k>> : k \in 1..writes[w]} : w \in BagToSet(writes)}

\* a call in flight once documents are handed to fs.writeFile beside it
Raced(w, documents) == [w EXCEPT !.rivals = @ \cup documents]

\* the call that takes document d, issued together with documents
Call(d, documents) ==
    [json   |-> d,
     rivals |-> {w.json : w \in BagToSet(writes)} \cup (documents \ {d})]

\* The calls in flight after a step that hands documents to fs.writeFile
\* (one call for each, equal documents included).
InFlightWith(documents) ==
    LET calls == {Raced(w, documents) : w \in BagToSet(writes)}
                    \cup {Call(d, documents) : d \in documents}
    IN  [c \in calls |->
            Cardinality({x \in Calls : Raced(x[1], documents) = c})
              + Cardinality({d \in documents : Call(d, documents) = c})]

\* the writes a step of the program sets off
Written ==
    /\ writes' = InFlightWith(Issued)
    /\ Issued # {} => BagCardinality(writes) <= MaxWrites
    /\ UNCHANGED <<file, failed, seen, rejected>>

\* lines 306-313: the callback of a write runs without error.  The file
\* holds its document, or, when it raced, possibly the document of a write
\* it raced with or no document.
WriteCompletes(w) ==
    /\ BagIn(w, writes)
    /\ file' \in {w.json} \cup w.rivals
                 \cup (IF w.rivals # {} THEN {Unparsable} ELSE {})
    /\ writes' = writes (-) SetToBag({w})
    /\ UNCHANGED <<prog, seen, failed, rejected>>

\* lines 307-310: the callback of a write runs with an error; the error is
\* logged, nothing else happens in the program.  The file is as it was (the
\* failure came at the open), holds no document (the failure came after
\* the truncation) or holds the document of a write it raced with.
WriteFails(w) ==
    /\ BagIn(w, writes)
    /\ file' \in {file, Unparsable} \cup w.rivals
    /\ writes' = writes (-) SetToBag({w})
    /\ failed' = TRUE
    /\ UNCHANGED <<prog, seen, rejected>>

\* The first start: one archiver entry, the source exists, the file holds no
\* tokens and no records.  The operator logs in until tokens are granted
\* (one request at a time); the run is the one the login invokes, and the
\* tokens stay valid meanwhile (the steps of the refresh timer are left
\* out).
InitStore ==
    \E world \in {SourceA(<<1>>) @@ ProxyA, SourceA(<<1>>)} :
        InitWith(<<"A">>, world, NoTokens, Refusing, {})

\* no /callback request is in service
NoCallback == callback.grant = 0 /\ callback.checkAuth = 0

NextStore ==
    \/ (\E r \in Runs : Job(r)) /\ Written
    \/ (\E r \in Runs, i \in Pairs : Reconcile(r, i)) /\ Written
    \/ StartupCheckAuth /\ Written
    \/ (\E r \in Runs, i \in Pairs : SaveTracks(r, i)) /\ Written
    \/ (\E error \in BOOLEAN :
           /\ NoCallback
           /\ persist.tokens = NoTokens
           /\ CallbackRequest(error)) /\ Written
    \/ CallbackSettles /\ Written
    \/ \E w \in BagToSet(writes) : WriteCompletes(w)
    \/ \E w \in BagToSet(writes) : WriteFails(w)

SpecStore == InitStore /\ [][NextStore]_vars

\* C1: once the user has removed a track from a target playlist, no later
\* run passes that track to add-tracks for that target.  (Under SpecSeq a
\* list computed after the removal belongs to the run in progress only if
\* that run itself added the track, so every violation is a re-addition.)
C1_RemovedNeverReAdded ==
    [][\A r \in Runs, i \in Pairs :
          (rec[r][i].pc = "compute" /\ rec'[r][i].pc = "addTracks")
          => Range(rec'[r][i].newTracksWithoutDeleted)
                \cap removedByUser[rec[r][i].targetId] = {}]_vars

\* C2: the list reconcile computes for add-tracks has exactly the members of
\* (S - T_now) - B_local - B_global.
C2_AdditionSet ==
    [][\A r \in Runs, i \in Pairs :
          (rec[r][i].pc = "compute" /\ rec'[r][i].pc # "compute")
          => Range(rec'[r][i].newTracksWithoutDeleted)
             = ((Range(rec[r][i].tracksSource) \ Range(rec[r][i].tracksTarget))
                 \ Range(persist.playlists[rec[r][i].targetId].blacklist))
               \ globalBlacklist]_vars

\* C3: no record's blacklist ever loses a track, and no record disappears.
C3_BlacklistNeverShrinks ==
    [][\A id \in DOMAIN persist.playlists :
          /\ id \in DOMAIN persist'.playlists
          /\ Range(persist.playlists[id].blacklist)
                \subseteq Range(persist'.playlists[id].blacklist)]_vars

\* C3 witness: two reconciles of one target overlap, one has just run its
\* removal detection on a blacklist that already held a track
C3_Witness ==
    \E x \in Acts, y \in Acts :
        /\ x # y
        /\ Act(x).pc = "getSource"
        /\ InFlight(Act(y))
        /\ Act(y).targetId = Act(x).targetId
        /\ persist.playlists[Act(x).targetId].blacklist # <<>>

\* C4: while nothing outside the program touches the remote lists, a
\* reconcile that follows a completed one issues no add-tracks call and
\* leaves the record's tracks and blacklist as they were.
C4_Idempotent ==
    [][\A id \in settled :
          /\ \A r \in Runs, i \in Pairs :
                rec'[r][i].targetId = id => rec'[r][i].pc # "addTracks"
          /\ id \in settled' =>
                /\ persist'.playlists[id].tracks = persist.playlists[id].tracks
                /\ persist'.playlists[id].blacklist
                      = persist.playlists[id].blacklist]_vars

\* C4 witness: the second reconcile is about to save, the record holds tracks
C4_Witness ==
    \E x \in Acts :
        /\ Act(x).pc = "save"
        /\ Act(x).targetId \in settled
        /\ persist.playlists[Act(x).targetId].tracks # <<>>
        /\ persist.playlists[Act(x).targetId].blacklist # <<>>

\* the names the settings configure
Names == SourceNames \cup TargetNames

\* C5: name resolution follows the zero/one/many policy.  For every
\* configured name, against the persisted records and the user's live
\* playlists: no record and no live playlist of that name gives not-found;
\* exactly one record of that name gives that record's key; no record and
\* exactly one live playlist of that name gives that playlist's id; two or
\* more records of that name raise the ambiguity error.
C5_ZeroOneMany ==
    \A name \in Names :
        LET inPersist == objectFilter(persist.playlists, name)
            inLive    == {p \in UserPlaylists : p.name = name}
            got       == ResolveId(name, persist.playlists, UserPlaylists)
        IN  /\ (inPersist = {} /\ inLive = {})
                  => (~got.threw /\ got.id = Undefined)
            /\ Cardinality(inPersist) = 1
                  => (~got.threw /\ got.id \in inPersist)
            /\ (inPersist = {} /\ Cardinality(inLive) = 1)
                  => (~got.threw /\ got.id \in {p.id : p \in inLive})
            /\ Cardinality(inPersist) > 1 => got.threw

\* the outcomes of a pair that end in an error raised while the job handles it
PairErrors == {"sourceNotUnique", "targetNotUnique", "typeError"}

\* C6: per-pair failure isolation.  When a run has ended and one of its
\* pairs raised an error, every other pair of that run was still handled.
C6_PairIsolation ==
    \A r \in Runs :
        (job[r].pc = "done" /\ \E i \in Pairs : job[r].log[i].outcome \in PairErrors)
        => \A j \in Pairs : job[r].log[j].outcome # "none"

\* C7: when the source resolves and the target does not, the run creates the
\* playlist and reconciles the pair in that same run: once createPlaylist has
\* answered with the new id, the pair's reconcile is under way on that id.
C7_CreatedThenReconciled ==
    [][\A r \in Runs :
          (job[r].pc = "createPlaylist" /\ DOMAIN remote' # DOMAIN remote)
          => LET i == job[r].idx
             IN  /\ InFlight(rec'[r][i])
                 /\ rec'[r][i].sourceId = job[r].sourceId
                 /\ rec'[r][i].targetId \in DOMAIN remote' \ DOMAIN remote]_vars

\* C8: a pair whose source resolves to no id is skipped for that run (no
\* playlist is created for it, no reconcile is started for it) and the pairs
\* after it are still handled.
C8_UnresolvedSourceSkipped ==
    \A r \in Runs, i \in Pairs :
        (/\ job[r].pc = "done"
         /\ job[r].log[i].outcome \notin {"none", "sourceNotUnique"}
         /\ job[r].log[i].src = Undefined)
        => /\ job[r].log[i].outcome = "skipped"
           /\ rec[r][i].pc = "none"
           /\ \A j \in Pairs : j > i => job[r].log[j].outcome # "none"

\* C9: a run whose authorization probe returned false is aborted: it lists
\* and creates no playlist, starts no reconcile, and the step that ends it
\* changes neither the persisted state nor the remote playlists.
C9_DeniedRunAborts ==
    [][\A r \in Runs :
          job'[r].auth = "denied"
          => /\ job'[r].pc = "done"
             /\ job'[r].userPlaylists = {}
             /\ \A i \in Pairs : rec'[r][i] = NoAct
             /\ job[r].auth # "denied"
                   => (persist' = persist /\ remote' = remote)]_vars

\* C9 witness: a run was denied while records exist and another run's
\* reconcile is in flight
C9_Witness ==
    \E r \in Runs :
        /\ job[r].auth = "denied"
        /\ job[r].pc = "done"
        /\ persist.playlists # <<>>
        /\ \E x \in Acts : x[1] # r /\ InFlight(Act(x))

\* the persisted refresh token is one the remote service accepts
RefreshTokenValid ==
    /\ persist.tokens.refreshToken # Undefined
    /\ persist.tokens.refreshToken = server.refresh

\* C10: whenever the persisted state holds a valid refresh token, the
\* background refresh eventually makes the client authorized again with no
\* login/callback, a start with an expired access token included.
C10_EventuallyAuthorized == RefreshTokenValid ~> AuthOK

\* C11: additions are chunked to at most ChunkLimit tracks per add-tracks
\* call: an addition list of n tracks issues ceil(n / ChunkLimit) calls, each
\* of at most ChunkLimit tracks.  (The step that performs the addition issues
\* one call, which carries the whole list.)
C11_ChunkedAdd ==
    [][\A r \in Runs, i \in Pairs :
          (rec[r][i].pc = "addTracks" /\ rec'[r][i].pc = "getTarget2")
          => LET n     == Len(rec[r][i].newTracksWithoutDeleted)
                 calls == 1
                 sent  == Len(remote'[rec[r][i].targetId].tracks)
                            - Len(remote[rec[r][i].targetId].tracks)
             IN  /\ calls = (n + ChunkLimit - 1) \div ChunkLimit
                 /\ sent <= ChunkLimit]_vars

\* C12: at most one archival run is in flight at any time (a run is in
\* flight until every reconcile it started has finished), so no two
\* reconciles of the same target overlap.
C12_OneRunInFlight ==
    /\ Cardinality({r \in Runs : ~SlotFree(r)}) <= 1
    /\ \A x \in Acts, y \in Acts :
          (x # y /\ InFlight(Act(x)) /\ InFlight(Act(y)))
          => Act(x).targetId # Act(y).targetId

\* C13: removal detection is exact.  The step of a reconcile that follows
\* the read of the target leaves in the record's blacklist exactly the
\* tracks that were in it before together with the tracks of the record's
\* snapshot that the target as read no longer holds; nothing else changes in
\* the record.
C13_RemovalDetectionExact ==
    [][\A r \in Runs, i \in Pairs :
          (rec[r][i].pc = "detect" /\ rec'[r][i].pc = "getSource")
          => LET id     == rec[r][i].targetId
                 before == persist.playlists[id]
                 after  == persist'.playlists[id]
             IN  /\ Range(after.blacklist)
                       = Range(before.blacklist)
                         \cup (Range(before.tracks)
                                 \ Range(rec[r][i].tracksTarget))
                 /\ after.tracks = before.tracks]_vars

\* C13 witness: the detection has just put a track the user removed into
\* the blacklist, next to one that was there already
C13_Witness ==
    \E x \in Acts :
        /\ Act(x).pc = "getSource"
        /\ LET p == persist.playlists[Act(x).targetId]
               gone == Range(p.tracks) \ Range(Act(x).tracksTarget)
           IN  /\ gone # {}
               /\ gone \subseteq Range(p.blacklist)
               /\ Range(p.blacklist) \ gone # {}

\* C14: no add-tracks call carries a track that is in the target's
\* blacklist at the moment the call is issued, also when reconciles of the
\* same target overlap.  (The call is issued in the step that computes the
\* list.)
C14_NoBlacklistedTrackAdded ==
    [][\A r \in Runs, i \in Pairs :
          (rec[r][i].pc = "compute" /\ rec'[r][i].pc = "addTracks")
          => Range(rec'[r][i].newTracksWithoutDeleted)
                \cap Range(persist'.playlists[rec[r][i].targetId].blacklist)
             = {}]_vars

\* C14 witness: a call has been issued for a target whose blacklist holds a
\* track of the source, while another reconcile of that target is in flight
C14_Witness ==
    \E x \in Acts, y \in Acts :
        /\ x # y
        /\ Act(x).pc = "addTracks"
        /\ Act(x).newTracksWithoutDeleted # <<>>
        /\ InFlight(Act(y))
        /\ Act(y).targetId = Act(x).targetId
        /\ Range(persist.playlists[Act(x).targetId].blacklist)
              \cap Range(remote[Act(x).sourceId].tracks) # {}

\* C15: after a reconcile that completes without error the record's tracks
\* are the target's list as read after the additions, and hold every track
\* the run added.
C15_SnapshotHoldsAdditions ==
    [][\A r \in Runs, i \in Pairs :
          (rec[r][i].pc = "save" /\ rec'[r][i].pc = "done")
          => LET tracks == persist'.playlists[rec[r][i].targetId].tracks
             IN  /\ tracks = rec[r][i].tracksTarget
                 /\ Range(rec[r][i].newTracksWithoutDeleted)
                       \subseteq Range(tracks)]_vars

\* C16: the tracks of a record change only in the last step of a reconcile
\* of that target, after all its remote calls were served; the step in
\* which a remote call of a reconcile fails (reading the target, reading
\* the source, adding tracks, the final re-read) leaves every record as it
\* was, so a failed reconcile has written no snapshot.
C16_SnapshotOnlyAtEnd ==
    [][/\ \A id \in DOMAIN persist.playlists :
             (/\ id \in DOMAIN persist'.playlists
              /\ persist'.playlists[id].tracks # persist.playlists[id].tracks)
             => \E r \in Runs, i \in Pairs :
                    /\ rec[r][i].pc = "save"
                    /\ rec'[r][i].pc = "done"
                    /\ rec[r][i].targetId = id
       /\ \A r \in Runs, i \in Pairs :
             (rec[r][i].pc # "failed" /\ rec'[r][i].pc = "failed")
             => persist'.playlists = persist.playlists]_vars

\* C16 witness: a reconcile failed after it had added a track, and the
\* record still holds the earlier, non-empty snapshot without that track
C16_Witness ==
    \E x \in Acts :
        /\ Act(x).pc = "failed"
        /\ Act(x).targetId \in DOMAIN persist.playlists
        /\ persist.playlists[Act(x).targetId].tracks # <<>>
        /\ Range(remote[Act(x).targetId].tracks)
              \ Range(persist.playlists[Act(x).targetId].tracks) # {}

\* C17: every step of the token refresh and of the /callback handler leaves
\* the playlist records as they were, and every step of an archival run
\* (the job and its reconciles) leaves the persisted tokens and the client's
\* tokens as they were; no step changes tokens and records together.
C17_FieldOwnership ==
    [][/\ persist'.playlists # persist.playlists
             => ~(TimerFires \/ RefreshAccessToken \/ RefreshFails \/ Callback)
       /\ (persist'.tokens # persist.tokens \/ spotify' # spotify)
             => ~(\/ \E r \in Runs : Job(r)
                  \/ \E r \in Runs, i \in Pairs : Reconcile(r, i))
       /\ persist'.tokens # persist.tokens
             => persist'.playlists = persist.playlists]_vars

\* C17 witness: the callback has just stored a new pair of tokens while a
\* reconcile is in flight and a record holds a snapshot
C17_Witness ==
    /\ callback.checkAuth > 0
    /\ persist.tokens.refreshToken # Undefined
    /\ \E x \in Acts : InFlight(Act(x))
    /\ \E id \in DOMAIN persist.playlists : persist.playlists[id].tracks # <<>>

\* C18: a successful token refresh that reports a lifetime of expiresIn
\* seconds leaves the refresh timer armed with expiresIn / 2 seconds
\* (expiresIn * 500 milliseconds), whatever interval was armed before; when
\* that is the interval already armed, the timer is left as it runs.
C18_TimerHalfLifetime ==
    [][\A accessToken \in Tokens, expiresIn \in server.lifetimes :
          RefreshAccessTokenWith(accessToken, expiresIn)
          => /\ 2 * refreshTimer'.interval = expiresIn * 1000
             /\ 2 * refreshTimer.interval = expiresIn * 1000
                   => refreshTimer'.interval = refreshTimer.interval]_vars

\* C18 witness: the timer is armed with half of one reported lifetime and a
\* refresh that reports the other lifetime is possible
C18_Witness ==
    /\ startup = "done"
    /\ callback = [grant |-> 0, checkAuth |-> 0]
    /\ refreshTimer.interval = 1799500
    /\ refreshTimer.pending > 0
    /\ ENABLED RefreshAccessTokenWith(1, 3600)

\* the runs that begin in a step
RunsBegun == {r \in Runs : job[r].pc \in {"idle", "done"} /\ job'[r].pc = "checkAuth"}

\* the step changes no token, does not re-arm the timer and begins no run
CallbackWithoutEffect ==
    /\ persist' = persist
    /\ spotify' = spotify
    /\ refreshTimer' = refreshTimer
    /\ RunsBegun = {}

\* C19 as claimed: a callback whose code exchange succeeds sets both
\* persisted tokens to the granted pair and is followed by exactly one
\* archival run; a callback with an error parameter, or whose code exchange
\* fails, changes no token, does not re-arm the timer and begins no run.
C19_CallbackThenOneRun ==
    [][/\ \A accessToken \in Tokens, refreshToken \in Tokens,
             expiresIn \in server.lifetimes :
             CallbackGranted(accessToken, refreshToken, expiresIn)
             => persist'.tokens = [accessToken |-> accessToken,
                                   refreshToken |-> refreshToken]
       /\ callback'.checkAuth < callback.checkAuth
             => Cardinality(RunsBegun) = 1
       /\ (CallbackRequest(TRUE) \/ CallbackGrantFails)
             => CallbackWithoutEffect]_vars

\* C19 as amended: a callback whose code exchange succeeds sets both
\* persisted tokens to the granted pair and re-arms the timer; it is
\* followed by exactly one archival run when the authorization probe that
\* the handler makes next succeeds (which takes a valid access token), and
\* by none when that probe fails; the probe changes no token; a callback with an error parameter, or
\* whose code exchange fails, changes no token, does not re-arm the timer
\* and begins no run.
C19_CallbackThenRunIfAuthorized ==
    [][/\ \A accessToken \in Tokens, refreshToken \in Tokens,
             expiresIn \in server.lifetimes :
             CallbackGranted(accessToken, refreshToken, expiresIn)
             => /\ persist'.tokens = [accessToken |-> accessToken,
                                      refreshToken |-> refreshToken]
                /\ 2 * refreshTimer'.interval = expiresIn * 1000
                /\ RunsBegun = {}
       /\ CallbackCheckAuthWith(TRUE) => Cardinality(RunsBegun) = 1
       /\ CallbackCheckAuthWith(FALSE) => RunsBegun = {}
       /\ callback'.checkAuth < callback.checkAuth
             => /\ ~AuthOK => RunsBegun = {}
                /\ persist' = persist /\ spotify' = spotify
       /\ (CallbackRequest(TRUE) \/ CallbackGrantFails)
             => CallbackWithoutEffect]_vars

\* C19 witness: the code exchange has stored the granted pair and armed the
\* timer, no run is in flight, and the handler's probe is about to settle:
\* it may succeed, and a run begins, or fail, and none does
C19_Witness ==
    /\ callback.checkAuth > 0
    /\ persist.tokens = Granted
    /\ refreshTimer.interval = 1800000
    /\ AuthOK
    /\ Quiescent
    /\ ENABLED CallbackCheckAuthWith(TRUE)
    /\ ENABLED CallbackCheckAuthWith(FALSE)

\* C20: every step that changes the in-memory state sets off a write of the
\* whole document as it then is; when no write is in flight and none has
\* failed, the file holds the in-memory state, whatever the order in which
\* the writes finished; a failing write leaves the in-memory state as it
\* was.
C20_FileFollowsMemory ==
    /\ []((writes = EmptyBag /\ ~failed) => file = persist)
    /\ [][/\ persist' # persist => persist' \in {w.json : w \in BagToSet(writes')}
          /\ (\E w \in BagToSet(writes) : WriteFails(w)) => persist' = persist]_vars

\* the remote playlists that carry a name
Named(name) == {id \in DOMAIN remote : remote[id].name = name}

\* C21: for each configured pair, whatever runs begin and overlap, at most
\* one playlist is created for its target: the user's playlists never hold
\* two playlists with the pair's target name.
C21_OneTargetCreated ==
    \A i \in Pairs : Cardinality(Named(settings[i].target.name)) <= 1

\* a track list in which no track occurs twice
NoDuplicates(tracks) ==
    \A m \in DOMAIN tracks, n \in DOMAIN tracks :
        tracks[m] = tracks[n] => m = n

\* C22: with sources that hold no track twice, whatever runs begin and
\* overlap, the archiver adds no track to a target that already holds it:
\* no track occurs twice in the live list of a target playlist.
C22_NoTrackAddedTwice ==
    /\ [](\A id \in DOMAIN remote :
             remote[id].name \in TargetNames => NoDuplicates(remote[id].tracks))
    /\ [][\A r \in Runs, i \in Pairs :
             (rec[r][i].pc = "addTracks" /\ rec'[r][i].pc = "getTarget2")
             => Range(rec[r][i].newTracksWithoutDeleted)
                   \cap Range(remote[rec[r][i].targetId].tracks) = {}]_vars
====
